---- MODULE Spec2Model ----
(***************************************************************************)
(* A model of equinox (src/src/main.rs): the directory classifier          *)
(* parse_site_structure, the template renderer blog_to_html with its       *)
(* steps load_template, replace_placeholders and serialize_dom, and the    *)
(* four callbacks main() installs on the window.                           *)
(*                                                                         *)
(* Text is a sequence of one-character strings, so that str::contains,     *)
(* str::replace and str::starts_with are computed character by character.  *)
(* A path is the sequence of its components.                               *)
(***************************************************************************)
EXTENDS Naturals, Sequences, FiniteSets, TLC

VARIABLES
    fs,                   \* the filesystem: path -> node
    current_project_root, \* main.rs:95  Rc<RefCell<Option<PathBuf>>>
    ui,                   \* the AppWindow properties the callbacks set
    printed,              \* what the most recent callback wrote to stdout and stderr
    handler,              \* the most recent callback
    scan,                 \* the parse_site_structure call of the most recent step, if any
    render,               \* the blog_to_html call of the most recent step, if any
    lastGood              \* history: the SiteStructure of the most recent successful scan

vars == <<fs, current_project_root, ui, printed, handler, scan, render, lastGood>>

(***************************************************************************)
(* Option and Result.                                                      *)
(***************************************************************************)
None == [tag |-> "None"]
Some(x) == [tag |-> "Some", val |-> x]
Ok(x) == [tag |-> "Ok", val |-> x]
Err(m, a) == [tag |-> "Err", msg |-> m, arg |-> a]

(***************************************************************************)
(* Bounds of the checked instances.                                        *)
(***************************************************************************)
MaxEntries == 3      \* children of the scanned directory
MaxFrags == 2        \* fragments making up the text node under test

(***************************************************************************)
(* Strings.                                                                *)
(***************************************************************************)
TitleToken == <<"{", "{", "t", "i", "t", "l", "e", "}", "}">>
ContentToken == <<"{", "{", "c", "o", "n", "t", "e", "n", "t", "}", "}">>

\* str::starts_with
StartsWith(s, pat) ==
    /\ Len(pat) <= Len(s)
    /\ SubSeq(s, 1, Len(pat)) = pat

\* the tail of s from (1-based) position i on
From(s, i) == SubSeq(s, i, Len(s))

\* str::contains
Contains(s, pat) == \E i \in 1..(Len(s) + 1) : StartsWith(From(s, i), pat)

\* str::replace: every non-overlapping match of `from`, found left to right,
\* becomes `to`; `from` is never empty here
RECURSIVE Replace(_, _, _)
Replace(s, from, to) ==
    IF s = <<>> THEN <<>>
    ELSE IF StartsWith(s, from) THEN to \o Replace(From(s, Len(from) + 1), from, to)
    ELSE <<Head(s)>> \o Replace(Tail(s), from, to)

RECURSIVE Concat(_)
Concat(ss) == IF ss = <<>> THEN <<>> ELSE Head(ss) \o Concat(Tail(ss))

(***************************************************************************)
(* Paths and file names.                                                   *)
(***************************************************************************)
InvalidByte == "0xFF"        \* a byte that is not valid UTF-8
ReplacementChar == "U+FFFD"

\* OsStr::to_string_lossy: invalid sequences become U+FFFD
to_string_lossy(name) ==
    [i \in 1..Len(name) |-> IF name[i] = InvalidByte THEN ReplacementChar ELSE name[i]]

\* OsStr::to_str: None unless valid UTF-8
to_str(name) ==
    IF \E i \in 1..Len(name) : name[i] = InvalidByte THEN None ELSE Some(name)

\* Path::join with a relative, single-component name
join(path, name) == Append(path, name)

DotDot == <<".", ".">>

\* Path::file_name: the last component, None for the root and for a path ending in ..
file_name(path) ==
    IF path = <<>> \/ path[Len(path)] = DotDot THEN None ELSE Some(path[Len(path)])

\* Path::display: the components, each after a separator, lossily
RECURSIVE display(_)
display(path) ==
    IF path = <<>> THEN <<"/">>
    ELSE IF Len(path) = 1 THEN <<"/">> \o to_string_lossy(path[1])
    ELSE display(SubSeq(path, 1, Len(path) - 1)) \o <<"/">> \o to_string_lossy(path[Len(path)])

(***************************************************************************)
(* The filesystem.  A node is a directory (listable or not, with the       *)
(* entries read_dir yields), a file (readable as UTF-8 text or not, with   *)
(* the document its text parses to) or missing.  An entry read_dir yields  *)
(* is an error, or a name with what the metadata of its path says it is:   *)
(* "file", "dir", or "unknown" when the metadata cannot be read.           *)
(***************************************************************************)
NoDoc == [root |-> 0, nodes |-> <<>>]
Missing == [kind |-> "missing", listable |-> FALSE, entries |-> <<>>, readable |-> FALSE, doc |-> NoDoc]
Dir(entries) == [kind |-> "dir", listable |-> TRUE, entries |-> entries, readable |-> FALSE, doc |-> NoDoc]
LockedDir == [kind |-> "dir", listable |-> FALSE, entries |-> <<>>, readable |-> FALSE, doc |-> NoDoc]
File(doc) == [kind |-> "file", listable |-> FALSE, entries |-> <<>>, readable |-> TRUE, doc |-> doc]
BadFile == [kind |-> "file", listable |-> FALSE, entries |-> <<>>, readable |-> FALSE, doc |-> NoDoc]

Entry(name, kind) == [ok |-> TRUE, name |-> name, kind |-> kind]
ErrEntry == [ok |-> FALSE, name |-> <<>>, kind |-> "unknown"]

Lookup(f, path) == IF path \in DOMAIN f THEN f[path] ELSE Missing

\* is_dir as a test for existence
is_dir_exists(f, path) == Lookup(f, path).kind # "missing"

\* Path::is_dir on the scanned path
is_dir(f, path) == Lookup(f, path).kind = "dir"

\* fs::read_dir
read_dir(f, path) ==
    LET node == Lookup(f, path) IN
    IF node.kind = "dir" /\ node.listable THEN Ok(node.entries)
    ELSE Err("Failed to read directory: ", node.kind)

(***************************************************************************)
(* parse_site_structure, main.rs:53-89.                                    *)
(***************************************************************************)
\* is_category_name with hidden directories admitted
is_category_name_any(name_str) == TRUE

\* main.rs:76  the test that admits a directory name to categories
is_category_name(name_str) == ~StartsWith(name_str, <<".">>)

\* main.rs:65-80  the body of the loop, for one entry the iterator yields
classify_entry(acc, path, entry) ==
    LET entry_path == join(path, entry.name)
        name_str == to_string_lossy(entry.name)
    IN  IF entry.kind = "file" /\ name_str = <<"i", "n", "d", "e", "x", ".", "h", "t", "m", "l">>
        THEN [acc EXCEPT !.index_path = Some(entry_path)]
        ELSE IF entry.kind = "dir"
        THEN IF name_str = <<"a", "s", "s", "e", "t", "s">>
             THEN [acc EXCEPT !.assets_path = Some(entry_path)]
             ELSE IF is_category_name(name_str)
             THEN [acc EXCEPT !.categories = Append(@, name_str)]
             ELSE acc
        ELSE acc

\* scan_entries giving up at the first entry that is an error
RECURSIVE scan_entries_until_error(_, _, _)
scan_entries_until_error(acc, path, entries) ==
    IF entries = <<>> \/ ~Head(entries).ok THEN acc
    ELSE scan_entries_until_error(classify_entry(acc, path, Head(entries)), path, Tail(entries))

\* main.rs:64  entries.filter_map(|e| e.ok()), folded through the loop body
RECURSIVE scan_entries(_, _, _)
scan_entries(acc, path, entries) ==
    IF entries = <<>> THEN acc
    ELSE scan_entries(
            IF Head(entries).ok THEN classify_entry(acc, path, Head(entries)) ELSE acc,
            path, Tail(entries))

\* the call: its return value and how many entries it took from the iterator
parse_site_structure(f, path) ==
    IF ~is_dir(f, path)
    THEN [path |-> path, ret |-> Err(" is not a directory", display(path)), enumerated |-> 0]
    ELSE LET entries == read_dir(f, path) IN
         IF entries.tag = "Err"
         THEN [path |-> path, ret |-> entries, enumerated |-> 0]
         ELSE [path |-> path,
               ret |-> Ok(scan_entries(
                          [root_path |-> path, index_path |-> None,
                           categories |-> <<>>, assets_path |-> None],
                          path, entries.val)),
               enumerated |-> Len(entries.val)]

(***************************************************************************)
(* The template document (RcDom).  nodes[id] is the node with handle id:   *)
(* its NodeData (kind, name, attrs, contents) and its children, in order.  *)
(***************************************************************************)
DocumentNode(children) ==
    [kind |-> "Document", name |-> <<>>, attrs |-> <<>>, contents |-> <<>>, children |-> children]
ElementNode(name, attrs, children) ==
    [kind |-> "Element", name |-> name, attrs |-> attrs, contents |-> <<>>, children |-> children]
TextNode(contents) ==
    [kind |-> "Text", name |-> <<>>, attrs |-> <<>>, contents |-> contents, children |-> <<>>]
CommentNode(contents) ==
    [kind |-> "Comment", name |-> <<>>, attrs |-> <<>>, contents |-> contents, children |-> <<>>]
Attr(name, value) == [name |-> name, value |-> value]

(***************************************************************************)
(* replace_placeholders, main.rs:209-225.                                  *)
(***************************************************************************)
\* new_text with the content token forgotten
new_text_title_only(text, title, content) ==
    IF Contains(text, TitleToken) \/ Contains(text, ContentToken)
    THEN Replace(text, TitleToken, title)
    ELSE text

\* main.rs:214-217  the new text of a text node
new_text(text, title, content) ==
    IF Contains(text, TitleToken) \/ Contains(text, ContentToken)
    THEN Replace(Replace(text, TitleToken, title), ContentToken, content)
    ELSE text

\* visit_node without the test for a text node
visit_node_any(node, title, content) ==
    [node EXCEPT !.contents = new_text(node.contents, title, content)]

\* main.rs:212-220  what the visit of one node does to it
visit_node(node, title, content) ==
    IF node.kind = "Text"
    THEN [node EXCEPT !.contents = new_text(node.contents, title, content)]
    ELSE node

\* main.rs:209-225  the node, then its children in order, each recursively
RECURSIVE replace_placeholders(_, _, _, _), replace_children(_, _, _, _)
replace_placeholders(nodes, h, title, content) ==
    replace_children([nodes EXCEPT ![h] = visit_node(nodes[h], title, content)],
                     nodes[h].children, title, content)

\* main.rs:222-224
replace_children(nodes, children, title, content) ==
    IF children = <<>> THEN nodes
    ELSE replace_children(replace_placeholders(nodes, Head(children), title, content),
                          Tail(children), title, content)

(***************************************************************************)
(* serialize_dom, main.rs:227-235, with html5ever's serializer: the        *)
(* children of the document, an element as its start tag, its children and *)
(* its end tag, text escaped unless its parent is a raw-text element.      *)
(***************************************************************************)
RawTextElements == {<<"s", "c", "r", "i", "p", "t">>, <<"s", "t", "y", "l", "e">>}

escape_char(c, attr_mode) ==
    IF c = "&" THEN <<"&", "a", "m", "p", ";">>
    ELSE IF c = "\"" /\ attr_mode THEN <<"&", "q", "u", "o", "t", ";">>
    ELSE IF c = "<" /\ ~attr_mode THEN <<"&", "l", "t", ";">>
    ELSE IF c = ">" /\ ~attr_mode THEN <<"&", "g", "t", ";">>
    ELSE <<c>>

escape(s, attr_mode) == Concat([i \in 1..Len(s) |-> escape_char(s[i], attr_mode)])

write_attr(a) == <<" ">> \o a.name \o <<"=", "\"">> \o escape(a.value, TRUE) \o <<"\"">>

RECURSIVE write_node(_, _, _), write_children(_, _, _)
write_node(nodes, h, raw) ==
    LET n == nodes[h] IN
    IF n.kind = "Element"
    THEN <<"<">> \o n.name \o Concat([i \in 1..Len(n.attrs) |-> write_attr(n.attrs[i])])
         \o <<">">> \o write_children(nodes, n.children, n.name \in RawTextElements)
         \o <<"<", "/">> \o n.name \o <<">">>
    ELSE IF n.kind = "Text" THEN (IF raw THEN n.contents ELSE escape(n.contents, FALSE))
    ELSE IF n.kind = "Comment" THEN <<"<", "!", "-", "-">> \o n.contents \o <<"-", "-", ">">>
    ELSE write_children(nodes, n.children, FALSE)

write_children(nodes, children, raw) ==
    IF children = <<>> THEN <<>>
    ELSE write_node(nodes, Head(children), raw) \o write_children(nodes, Tail(children), raw)

\* main.rs:227-235; ser_ok is whether html5ever's serialize returns Ok
serialize_dom(dom, ser_ok) ==
    IF ser_ok THEN Ok(write_node(dom.nodes, dom.root, FALSE))
    ELSE Err("Failed to serialize HTML: ", "io")

(***************************************************************************)
(* load_template, main.rs:197-207; parse_ok is whether read_from returns   *)
(* Ok.  The document a file's text parses to is the file's doc.            *)
(***************************************************************************)
\* fs::read_to_string
read_to_string(f, path) ==
    LET node == Lookup(f, path) IN
    IF node.kind = "file" /\ node.readable THEN Ok(node.doc)
    ELSE Err("Failed to read template: ", node.kind)

\* load_template falling back to an empty page when the file cannot be read
load_template_fallback(f, template_path, parse_ok) ==
    LET html_content == read_to_string(f, template_path) IN
    IF ~parse_ok
    THEN [ret |-> Err("Failed to parse template: ", "io"), steps |-> <<"load", "parse">>]
    ELSE [ret |-> Ok(IF html_content.tag = "Err"
                     THEN [root |-> 1, nodes |-> <<DocumentNode(<<>>)>>]
                     ELSE html_content.val),
          steps |-> <<"load", "parse">>]

load_template(f, template_path, parse_ok) ==
    LET html_content == read_to_string(f, template_path) IN
    IF html_content.tag = "Err" THEN [ret |-> html_content, steps |-> <<"load">>]
    ELSE IF ~parse_ok
    THEN [ret |-> Err("Failed to parse template: ", "io"), steps |-> <<"load", "parse">>]
    ELSE [ret |-> Ok(html_content.val), steps |-> <<"load", "parse">>]

(***************************************************************************)
(* blog_to_html, main.rs:237-243.  The call: its return value, the steps   *)
(* it ran, the lines it printed, and the document before and after the     *)
(* substitution.                                                           *)
(***************************************************************************)
blog_to_html(f, template_path, title, content, parse_ok, ser_ok) ==
    LET loaded == load_template(f, template_path, parse_ok)
        call == [template_path |-> template_path, title |-> title, content |-> content,
                 ret |-> loaded.ret, steps |-> loaded.steps, stdout |-> <<>>,
                 dom |-> None, dom_after |-> None]
    IN  IF loaded.ret.tag = "Err" THEN call
        ELSE LET dom == loaded.ret.val
                 after == [dom EXCEPT !.nodes =
                              replace_placeholders(dom.nodes, dom.root, title, content)]
                 html_output == serialize_dom(after, ser_ok)
                 ran == [call EXCEPT !.steps = @ \o <<"substitute", "serialize">>,
                                     !.dom = Some(dom), !.dom_after = Some(after),
                                     !.ret = html_output]
             IN  IF html_output.tag = "Err" THEN ran
                 ELSE [ran EXCEPT !.stdout = <<html_output.val>>]

(***************************************************************************)
(* main, main.rs:91-195: the state the callbacks share and the callbacks.  *)
(***************************************************************************)
DefaultHtml == <<"d", "e", "f", "a", "u", "l", "t", ".", "h", "t", "m", "l">>

Line(text, arg) == [text |-> text, arg |-> arg]
Quiet == [stdout |-> <<>>, stderr |-> <<>>]

\* main.rs:31-51  impl fmt::Display for SiteStructure
RECURSIVE join_names(_)
join_names(names) ==
    IF names = <<>> THEN <<>>
    ELSE IF Len(names) = 1 THEN names[1]
    ELSE names[1] \o <<",", " ">> \o join_names(Tail(names))

fmt(structure) ==
    [root |-> display(structure.root_path),
     index |-> IF structure.index_path.tag = "Some"
               THEN display(structure.index_path.val) ELSE <<"not found">>,
     assets |-> IF structure.assets_path.tag = "Some"
                THEN display(structure.assets_path.val) ELSE <<"not found">>,
     categories |-> join_names(structure.categories)]

\* stored_root keeping a root only when the scan found an index
stored_root_if_index(structure) ==
    IF structure.index_path = None THEN None ELSE Some(structure.root_path)

\* main.rs:110  what a successful scan stores as the project root
stored_root(structure) == Some(structure.root_path)

\* main.rs:112-117
project_name(structure) ==
    LET name == file_name(structure.root_path) IN
    IF name.tag = "Some" /\ to_str(name.val).tag = "Some" THEN to_str(name.val).val
    ELSE display(structure.root_path)

\* main.rs:134-138  the missing-index flag after a scan, given the flag before it
prompt_after_scan(structure, shown) ==
    IF structure.index_path = None THEN TRUE ELSE shown

\* main.rs:127-138  the window properties after a successful scan
ui_after_scan(structure) ==
    [selected_project |-> project_name(structure),
     show_selected_project |-> TRUE,
     categories |-> structure.categories,
     show_create_index_prompt |->
         prompt_after_scan(structure, ui.show_create_index_prompt)]

\* template_path_of without the join
template_path_self(root_path) == root_path

\* main.rs:175  the template a render reads
template_path_of(root_path) == join(root_path, DefaultHtml)

\* the directories the dialog can return: the paths of the filesystem and one
\* that was removed after it was picked
Gone == << <<"g", "o", "n", "e">> >>
PickablePaths == DOMAIN fs \cup {Gone}

\* the strings the user can have typed into the title and content fields
Hi == <<"H", "i">>
Markup == <<"a", "<", "b">>
InputPool == {<<>>, Hi, Markup, TitleToken, ContentToken}

\* main.rs:98-144
on_parse_directory ==
    \E picked \in {None} \cup {Some(p) : p \in PickablePaths} :
        /\ handler' = "parse_directory"
        /\ render' = None
        /\ fs' = fs
        /\ IF picked = None
           THEN /\ scan' = None
                /\ printed' = Quiet
                /\ UNCHANGED <<current_project_root, ui, lastGood>>
           ELSE LET call == parse_site_structure(fs, picked.val) IN
                /\ scan' = Some(call)
                /\ IF call.ret.tag = "Ok"
                   THEN /\ printed' = [stdout |-> <<Line("SiteStructure", fmt(call.ret.val))>>,
                                       stderr |-> <<>>]
                        /\ current_project_root' = stored_root(call.ret.val)
                        /\ ui' = ui_after_scan(call.ret.val)
                        /\ lastGood' = Some(call.ret.val)
                   ELSE /\ printed' = [stdout |-> <<>>,
                                       stderr |-> <<Line("Error: ", call.ret.msg)>>]
                        /\ UNCHANGED <<current_project_root, ui, lastGood>>

\* main.rs:146-154
on_create_index_file ==
    /\ handler' = "create_index_file"
    /\ printed' = [stdout |-> <<Line("Creating index.html...", <<>>)>>, stderr |-> <<>>]
    /\ ui' = [ui EXCEPT !.show_create_index_prompt = FALSE]
    /\ scan' = None
    /\ render' = None
    /\ UNCHANGED <<fs, current_project_root, lastGood>>

\* main.rs:156-163
on_cancel_create_index ==
    /\ handler' = "cancel_create_index"
    /\ printed' = Quiet
    /\ ui' = [ui EXCEPT !.show_create_index_prompt = FALSE]
    /\ scan' = None
    /\ render' = None
    /\ UNCHANGED <<fs, current_project_root, lastGood>>

\* main.rs:165-185; title and content are what get_blog_title and
\* get_blog_content return
on_generate_page ==
    \E title \in InputPool, content \in InputPool, parse_ok \in BOOLEAN, ser_ok \in BOOLEAN :
        /\ handler' = "generate_page"
        /\ scan' = None
        /\ IF current_project_root.tag = "Some"
           THEN LET template_path == template_path_of(current_project_root.val)
                    call == blog_to_html(fs, template_path, title, content, parse_ok, ser_ok)
                IN  /\ render' = Some(call)
                    /\ printed' =
                         IF call.ret.tag = "Ok"
                         THEN [stdout |-> Append(call.stdout,
                                                 Line("Generated HTML", Len(call.ret.val))),
                               stderr |-> <<>>]
                         ELSE [stdout |-> call.stdout,
                               stderr |-> <<Line("Error: ", call.ret.msg)>>]
           ELSE /\ render' = None
                /\ printed' = [stdout |-> <<>>,
                               stderr |-> <<Line("Error: ", "No project selected")>>]
        /\ UNCHANGED <<fs, current_project_root, ui, lastGood>>

\* main.rs:187-190
on_create_category ==
    /\ handler' = "create_category"
    /\ printed' = [stdout |-> <<Line("Create category clicked", <<>>)>>, stderr |-> <<>>]
    /\ scan' = None
    /\ render' = None
    /\ UNCHANGED <<fs, current_project_root, ui, lastGood>>

(***************************************************************************)
(* The templates of the checked instances: three documents, each with one  *)
(* text node x under test (handle 5) next to fixed nodes.                  *)
(***************************************************************************)
T_html == <<"h", "t", "m", "l">>
T_body == <<"b", "o", "d", "y">>
T_h1 == <<"h", "1">>
T_p == <<"p">>
T_div == <<"d", "i", "v">>
T_span == <<"s", "p", "a", "n">>
T_script == <<"s", "c", "r", "i", "p", "t">>
A_lang == <<"l", "a", "n", "g">>
A_title == <<"t", "i", "t", "l", "e">>
Plain == <<"a", "&", "b">>

\* <html><body><h1>x</h1><p>{{content}}</p></body></html>
Heading(x) ==
    [root |-> 1,
     nodes |-> << DocumentNode(<<2>>),
                  ElementNode(T_html, <<>>, <<3>>),
                  ElementNode(T_body, <<>>, <<4, 6>>),
                  ElementNode(T_h1, <<>>, <<5>>),
                  TextNode(x),
                  ElementNode(T_p, <<>>, <<7>>),
                  TextNode(ContentToken) >>]

\* <html lang="en"><!--{{title}}--><div title="{{title}}">a&amp;b<span>x</span></div></html>
Tagged(x) ==
    [root |-> 1,
     nodes |-> << DocumentNode(<<2>>),
                  ElementNode(T_html, <<Attr(A_lang, <<"e", "n">>)>>, <<3, 4>>),
                  CommentNode(TitleToken),
                  ElementNode(T_div, <<Attr(A_title, TitleToken)>>, <<6, 7>>),
                  TextNode(x),
                  TextNode(Plain),
                  ElementNode(T_span, <<>>, <<5>>) >>]

\* <html><script>x</script></html>
Script(x) ==
    [root |-> 1,
     nodes |-> << DocumentNode(<<2>>),
                  ElementNode(T_html, <<>>, <<3>>),
                  ElementNode(T_script, <<>>, <<5>>),
                  TextNode(Plain),
                  TextNode(x) >>]

\* the text under test: up to MaxFrags of these fragments, concatenated
Fragments ==
    { TitleToken, ContentToken, <<"H", "i", " ">>,
      <<"{", "{", "c", "o", "n">> \o TitleToken, <<"t", "e", "n", "t", "}", "}">>,
      <<"{", "{">> \o TitleToken, <<"t", "i", "t", "l", "e", "}", "}">> }

Texts == {Concat(fr) : fr \in UNION {[1..n -> Fragments] : n \in 0..MaxFrags}}

Templates == UNION {{Heading(x), Tagged(x), Script(x)} : x \in Texts}

(***************************************************************************)
(* The directories of the checked instances.                               *)
(***************************************************************************)
N_index == <<"i", "n", "d", "e", "x", ".", "h", "t", "m", "l">>
N_INDEX == <<"I", "N", "D", "E", "X", ".", "H", "T", "M", "L">>
N_assets == <<"a", "s", "s", "e", "t", "s">>
N_Assets == <<"A", "s", "s", "e", "t", "s">>
N_git == <<".", "g", "i", "t">>
N_tech == <<"t", "e", "c", "h">>
N_odd == <<"c", InvalidByte>>

NamePool == {N_index, N_INDEX, N_assets, N_Assets, N_git, N_tech, N_odd}
EntryPool == {Entry(n, k) : n \in NamePool, k \in {"file", "dir", "unknown"}} \cup {ErrEntry}

\* a directory holds each name once
DistinctNames(es) ==
    \A i, j \in 1..Len(es) : (i # j /\ es[i].ok /\ es[j].ok) => es[i].name # es[j].name

EntryLists ==
    {es \in UNION {[1..n -> EntryPool] : n \in 0..MaxEntries} : DistinctNames(es)}

P_scanned == << <<"h", "o", "m", "e">>, <<"s", "i", "t", "e">> >>
P_site == << <<"s", "i", "t", "e">> >>
P_blog == << <<"b", "l", "o", "g">> >>
P_bare == << <<"b", "a", "r", "e">> >>
P_odd == << N_odd >>
P_up == << <<"s", "i", "t", "e">>, DotDot >>
P_locked == << <<"l", "o", "c", "k", "e", "d">> >>
P_notes == << <<"n", "o", "t", "e", "s">> >>

\* the filesystem the window runs on
ShellFs ==
    LET listing ==
            (P_site :> Dir(<<Entry(N_index, "file"), Entry(N_tech, "dir"), Entry(N_assets, "dir"),
                             Entry(N_git, "dir"), Entry(DefaultHtml, "file")>>))
         @@ (P_blog :> Dir(<<Entry(DefaultHtml, "file"), Entry(N_tech, "dir"), ErrEntry>>))
         @@ (P_bare :> Dir(<<Entry(N_index, "file")>>))
         @@ (P_odd :> Dir(<<Entry(N_index, "dir"), Entry(DefaultHtml, "file")>>))
         @@ (P_up :> Dir(<<Entry(N_index, "file"), Entry(N_Assets, "dir")>>))
         @@ (P_locked :> LockedDir)
         @@ (P_notes :> File(Heading(TitleToken)))
         @@ (join(P_site, DefaultHtml) :> File(Heading(TitleToken \o TitleToken)))
         @@ (join(P_blog, DefaultHtml) :> File(Tagged(ContentToken)))
         @@ (join(P_odd, DefaultHtml) :> BadFile)
    IN  listing

(***************************************************************************)
(* The window: main.rs:91-96 and the event loop of ui.run().               *)
(***************************************************************************)
InitShell ==
    /\ current_project_root = None
    /\ ui = [selected_project |-> <<>>, show_selected_project |-> FALSE,
             categories |-> <<>>, show_create_index_prompt |-> FALSE]
    /\ printed = Quiet
    /\ handler = "none"
    /\ scan = None
    /\ render = None
    /\ lastGood = None

Init ==
    /\ fs = ShellFs
    /\ InitShell

Next ==
    \/ on_parse_directory
    \/ on_create_index_file
    \/ on_cancel_create_index
    \/ on_generate_page
    \/ on_create_category

Spec == Init /\ [][Next]_vars

(***************************************************************************)
(* The classifier alone, on every directory of up to MaxEntries entries.   *)
(***************************************************************************)
InitScan ==
    /\ fs \in {(P_scanned :> node) :
                 node \in {Dir(es) : es \in EntryLists} \cup {LockedDir, BadFile}}
    /\ InitShell

\* one call of parse_site_structure
classify ==
    \E path \in PickablePaths :
        /\ scan = None
        /\ scan' = Some(parse_site_structure(fs, path))
        /\ handler' = "classify"
        /\ UNCHANGED <<fs, current_project_root, ui, printed, render, lastGood>>

NextScan == classify

SpecScan == InitScan /\ [][NextScan]_vars

(***************************************************************************)
(* The renderer alone, on every template of Templates.                     *)
(***************************************************************************)
P_template == << <<"t", ".", "h", "t", "m", "l">> >>
P_binary == << <<"b", "i", "n">> >>

InitRender ==
    /\ fs \in {(P_template :> File(dom)) @@ (P_binary :> BadFile) : dom \in Templates}
    /\ InitShell

\* one call of blog_to_html
generate ==
    \E template_path \in DOMAIN fs \cup {Gone}, title \in InputPool, content \in InputPool,
       parse_ok \in BOOLEAN, ser_ok \in BOOLEAN :
        /\ render = None
        /\ render' = Some(blog_to_html(fs, template_path, title, content, parse_ok, ser_ok))
        /\ handler' = "generate"
        /\ UNCHANGED <<fs, current_project_root, ui, printed, scan, lastGood>>

NextRender == generate

SpecRender == InitRender /\ [][NextRender]_vars

(***************************************************************************)
(* Properties of the renderer, under SpecRender.                           *)
(***************************************************************************)
HasToken(s) == Contains(s, TitleToken) \/ Contains(s, ContentToken)

Rendered == render.tag = "Some" /\ render.val.dom.tag = "Some"
RenderedOk == Rendered /\ render.val.ret.tag = "Ok"

\* the template's tokens occur only in its text nodes
TokensOnlyInText(dom) ==
    \A h \in 1..Len(dom.nodes) :
        LET n == dom.nodes[h] IN
        n.kind # "Text" =>
            /\ ~HasToken(n.name)
            /\ ~HasToken(n.contents)
            /\ \A i \in 1..Len(n.attrs) : ~HasToken(n.attrs[i].name) /\ ~HasToken(n.attrs[i].value)

\* position i of s lies inside an occurrence of a token
InToken(s, i) ==
    \E j \in 1..i, tok \in {TitleToken, ContentToken} :
        StartsWith(From(s, j), tok) /\ i < j + Len(tok)

\* every { of s belongs to an occurrence of a token
BracesOnlyInTokens(s) == \A i \in 1..Len(s) : s[i] = "{" => InToken(s, i)

NoBrace(s) == \A i \in 1..Len(s) : s[i] # "{"

\* C1, as stated: whatever the title and the content, the output of a successful
\* render of a template whose tokens occur only in text nodes contains no literal
\* {{title}} or {{content}}.
C1_NoTokenInOutput ==
    (RenderedOk /\ TokensOnlyInText(render.val.dom.val)) => ~HasToken(render.val.ret.val)

\* C1, amended: when neither the title nor the content contains a { and every { of
\* the template's text nodes belongs to a token occurrence, the output of a
\* successful render of a template whose tokens occur only in text nodes contains
\* no literal {{title}} or {{content}}.
C1_NoTokenInOutput_PlainInputs ==
    ( /\ RenderedOk
      /\ TokensOnlyInText(render.val.dom.val)
      /\ NoBrace(render.val.title)
      /\ NoBrace(render.val.content)
      /\ \A h \in 1..Len(render.val.dom.val.nodes) :
            BracesOnlyInTokens(render.val.dom.val.nodes[h].contents) )
    => ~HasToken(render.val.ret.val)

\* a successful render with brace-free inputs of a heading that held both tokens
C1_Witness ==
    /\ RenderedOk
    /\ render.val.dom.val = Heading(TitleToken \o ContentToken)
    /\ render.val.title = Hi
    /\ render.val.content = Markup
    /\ ~HasToken(render.val.ret.val)
    /\ Contains(render.val.ret.val, Hi)

\* the text with every token occurrence replaced at once: the inserted strings
\* are not looked at again
RECURSIVE SubstituteAtOnce(_, _, _)
SubstituteAtOnce(s, title, content) ==
    IF s = <<>> THEN <<>>
    ELSE IF StartsWith(s, TitleToken)
    THEN title \o SubstituteAtOnce(From(s, Len(TitleToken) + 1), title, content)
    ELSE IF StartsWith(s, ContentToken)
    THEN content \o SubstituteAtOnce(From(s, Len(ContentToken) + 1), title, content)
    ELSE <<Head(s)>> \o SubstituteAtOnce(Tail(s), title, content)

\* C2: after the substitution every text node holds its original text with each
\* {{title}} replaced by the title and each {{content}} by the content, verbatim
\* and simultaneously, whatever the title and the content contain.
C2_SimultaneousSubstitution ==
    Rendered =>
        \A h \in 1..Len(render.val.dom.val.nodes) :
            render.val.dom.val.nodes[h].kind = "Text" =>
                render.val.dom_after.val.nodes[h].contents =
                    SubstituteAtOnce(render.val.dom.val.nodes[h].contents,
                                     render.val.title, render.val.content)

\* C7: the substitution changes nothing but the contents of text nodes that hold
\* a token: the root, the set of nodes, every node's kind, name, attributes and
\* children, and the contents of every other node are as before.
C7_OnlyTokenTextChanges ==
    Rendered =>
        LET before == render.val.dom.val
            after == render.val.dom_after.val
        IN  /\ after.root = before.root
            /\ Len(after.nodes) = Len(before.nodes)
            /\ \A h \in 1..Len(before.nodes) :
                 \/ after.nodes[h] = before.nodes[h]
                 \/ /\ before.nodes[h].kind = "Text"
                    /\ HasToken(before.nodes[h].contents)
                    /\ after.nodes[h] =
                         [before.nodes[h] EXCEPT !.contents = after.nodes[h].contents]

\* the substitution changed the text under test while an attribute value and a
\* comment held a token
C7_Witness ==
    /\ Rendered
    /\ render.val.dom.val = Tagged(TitleToken)
    /\ render.val.title = Hi
    /\ render.val.dom_after.val.nodes[5].contents = Hi
    /\ render.val.dom_after.val.nodes[4].attrs[1].value = TitleToken

AllSteps == <<"load", "parse", "substitute", "serialize">>

\* the step an error message belongs to
StepOfError(msg) ==
    IF msg = "Failed to read template: " THEN 1
    ELSE IF msg = "Failed to parse template: " THEN 2
    ELSE IF msg = "Failed to serialize HTML: " THEN 4
    ELSE 0

\* C8: a render runs load, parse, substitute, serialize in this order, each at
\* most once; a failure ends it at the failing step with that step's error, no
\* HTML text returned or printed; a success ran all four; a template path that is
\* no readable file fails at load with the template-read error.
C8_StepsInOrderAbortOnFailure ==
    render.tag = "Some" =>
        LET call == render.val IN
        /\ \E n \in 1..Len(AllSteps) : call.steps = SubSeq(AllSteps, 1, n)
        /\ call.ret.tag = "Ok" => call.steps = AllSteps /\ call.stdout = <<call.ret.val>>
        /\ call.ret.tag = "Err" =>
              /\ StepOfError(call.ret.msg) > 0
              /\ call.steps = SubSeq(AllSteps, 1, StepOfError(call.ret.msg))
              /\ call.stdout = <<>>
        /\ ~(Lookup(fs, call.template_path).kind = "file"
             /\ Lookup(fs, call.template_path).readable) =>
              /\ call.ret.tag = "Err"
              /\ call.ret.msg = "Failed to read template: "
              /\ call.steps = <<"load">>

\* a render of a path that does not exist
C8_Witness ==
    /\ render.tag = "Some"
    /\ render.val.template_path = Gone
    /\ render.val.ret.tag = "Err"
    /\ render.val.ret.msg = "Failed to read template: "
    /\ render.val.stdout = <<>>

(***************************************************************************)
(* Properties of the classifier, under SpecScan.                           *)
(***************************************************************************)
Scanned == scan.tag = "Some"
ScannedOk == Scanned /\ scan.val.ret.tag = "Ok"

RECURSIVE CategoryNames(_)
CategoryNames(es) ==
    IF es = <<>> THEN <<>>
    ELSE LET e == Head(es)
             shown == to_string_lossy(e.name)
         IN  IF e.ok /\ e.kind = "dir" /\ shown # N_assets /\ (shown = <<>> \/ shown[1] # ".")
             THEN <<shown>> \o CategoryNames(Tail(es))
             ELSE CategoryNames(Tail(es))

HasEntry(es, name, kind) ==
    \E i \in 1..Len(es) : es[i].ok /\ es[i].name = name /\ es[i].kind = kind

C9_NotADirectory ==
    (Scanned /\ Lookup(fs, scan.val.path).kind # "dir") =>
        /\ scan.val.ret.tag = "Err"
        /\ scan.val.ret.msg = " is not a directory"
        /\ scan.val.enumerated = 0

\* a scan of a path that is a regular file
C9_Witness ==
    /\ Scanned
    /\ Lookup(fs, scan.val.path).kind = "file"
    /\ scan.val.ret.tag = "Err"
    /\ scan.val.ret.msg = " is not a directory"

(***************************************************************************)
(* Properties of the window, under Spec.                                   *)
(***************************************************************************)
NoProjectSelected == <<Line("Error: ", "No project selected")>>

\* C5: a generate-page request reports No project selected iff no scan has
\* succeeded before it, and then blog_to_html is not called, so no template is
\* read.
C5_NoProjectIffNoScan ==
    handler = "generate_page" =>
        /\ (printed.stderr = NoProjectSelected) <=> (lastGood = None)
        /\ (printed.stderr = NoProjectSelected) => (render = None /\ printed.stdout = <<>>)

\* a generate-page request with no successful scan before it
C5_Witness ==
    /\ handler = "generate_page"
    /\ lastGood = None
    /\ printed.stderr = NoProjectSelected
    /\ render = None

\* C6: the stored project root is the root_path of the most recent successful
\* scan, None before the first one, whatever callbacks ran since; and a render
\* reads default.html under that root.
C6_RootIsLastGoodScan ==
    /\ current_project_root =
          (IF lastGood = None THEN None ELSE Some(lastGood.val.root_path))
    /\ render.tag = "Some" =>
          /\ lastGood.tag = "Some"
          /\ render.val.template_path = Append(lastGood.val.root_path, DefaultHtml)

\* a render that failed under the last scanned root, which is still stored
C6_Witness ==
    /\ handler = "generate_page"
    /\ render.tag = "Some"
    /\ render.val.ret.tag = "Err"
    /\ lastGood.tag = "Some"
    /\ lastGood.val.root_path = P_bare
    /\ current_project_root = Some(P_bare)
    /\ render.val.template_path = Append(P_bare, DefaultHtml)

\* C10: right after every successful scan the missing-index flag says whether
\* the scanned structure has no index.
C10_PromptReflectsScan ==
    (handler = "parse_directory" /\ ScannedOk) =>
        ui.show_create_index_prompt = (scan.val.ret.val.index_path = None)

====
